---- MODULE Spec2Model ----
(***************************************************************************)
(* Model of the backend of live-interview-copilot (src/backend).            *)
(*                                                                         *)
(* One websocket_audio_endpoint coroutine runs per client connection.  It  *)
(* registers the connection, opens a Deepgram stream, starts the task      *)
(* handle_deepgram_responses and then loops on websocket.receive().  The   *)
(* task reads final transcripts from DeepgramTranscriber.transcription_    *)
(* queue, forwards them to the client, buffers them and, on a sentence     *)
(* end, awaits GroqLLMClient.get_response.                                 *)
(*                                                                         *)
(* Text is modelled as a sequence of Unicode code points, time as whole    *)
(* seconds of the event loop's clock.  Every await of the source is a      *)
(* point where the other coroutines may run, so each action below is the   *)
(* code between two awaits.                                                *)
(***************************************************************************)
EXTENDS Integers, Sequences, FiniteSets, TLC

\* ------------------------------------------------------------------ bounds
\* SpecTurns: seconds on the clock, transcripts Deepgram reports
MaxTime == 4
MaxEmit == 3
\* Spec: seconds on the clock, inputs (transcripts and client frames)
MaxClock == 1
MaxInputs == 3
\* SpecShared: transcripts Deepgram reports
MaxShared == 2

\* SpecBuffer: reports and frames of the connection, together
MaxMixed == 3

\* SpecRegistry: frames the clients send
MaxFrames == 2

\* SpecLatency: seconds on the clock, transcripts Deepgram reports
MaxWait == 4
MaxHeard == 3

\* ------------------------------------------------------- program constants
\* main.py:159  (current_time - last_transcript_time) > 3.0
PauseSeconds == 3

\* ------------------------------------------------------------ input spaces
Sessions == {"A", "B"}

\* Texts, written as the code points of their characters
TxtSo == << 83, 111 >>                           \* "So"
TxtYou == << 121, 111, 117, 63 >>                \* "you?"
TxtOk == << 111, 107, 46, 11 >>                  \* "ok.\x0b"
TxtNo == << 110, 111, 33 >>                      \* "no!"
TxtBlank == << 32, 12288 >>                      \* " \u3000", whitespace only
TxtS == << 83 >>                                 \* "S"
TxtSoYou == << 83, 111, 32, 121, 111, 117, 63 >> \* "So you?"

\* Transcripts Deepgram may report (result.channel.alternatives[0].transcript)
FragTexts == { TxtSo, TxtYou, TxtOk, TxtNo, TxtBlank, << >> }

\* Transcripts reported as interim results
InterimTexts == { TxtSo }

\* Transcripts of the runs with several connections
FewTexts == { TxtSo, TxtYou }

\* Binary audio frames a client may send
AudioChunks == {"a1", "a2"}

\* Text frames a client may send: a JSON document and a malformed one
FrameMeta == << 123, 34, 116, 34, 58, 32, 91, 49, 93, 125, 32 >> \* '{"t": [1]} '
FrameOpen == << 123 >>                                            \* '{'
TextFrames == { FrameMeta, FrameOpen }

\* Interim transcripts that are no final transcript of FragTexts
PartialTexts == { TxtS }

\* Values of DEEPGRAM_API_KEY and GROQ_API_KEY in the environment
ApiKeys == {"", "key"}

\* Completions and failures of the Groq API
Responses == { << 114, 49 >> }                             \* "r1"
LLMErrors == { << 116, 105, 109, 101, 111, 117, 116 >> }   \* "timeout"

\* str(e) of what start_transcription raises: the exception of
\* deepgram_client.py:114 when connection.start returns a false value, or an
\* exception of the SDK with its own text
TxtStartFailed ==
    << 70, 97, 105, 108, 101, 100, 32, 116, 111, 32, 115, 116, 97, 114, 116,
       32, 68, 101, 101, 112, 103, 114, 97, 109, 32, 99, 111, 110, 110, 101,
       99, 116, 105, 111, 110 >>       \* "Failed to start Deepgram connection"
TxtSdkError == << 116, 105, 109, 101, 100, 32, 111, 117, 116 >> \* "timed out"
StartErrors == { TxtStartFailed, TxtSdkError }

NoItem == [text |-> <<>>, src |-> "-", at |-> 0]
NoText == << -1 >>
NoFrame == [kind |-> "none", data |-> "-"]

\* ------------------------------------------------------------------- state
VARIABLES
    now,                  \* asyncio.get_event_loop().time()
    active_connections,   \* ConnectionManager.active_connections
    transcription_queue,  \* DeepgramTranscriber.transcription_queue (one per process)
    pc,                   \* position of websocket_audio_endpoint, per connection
    hpc,                  \* position of handle_deepgram_responses, per connection
    wsOpen,               \* the client side of the websocket is open
    dg,                   \* state of the connection's Deepgram stream
    transcript_buffer,    \* local of the endpoint, per connection
    last_transcript_time, \* local of the endpoint, per connection
    transcription,        \* loop variable of the task (with the stream it came from)
    complete_text,        \* local of the task: the question awaiting the LLM
    out,                  \* messages the client has been sent, per connection
    fwd,                  \* audio forwarded to the connection's Deepgram stream
    lastEval,             \* record of the task's latest sentence-end evaluation
    processed,            \* every transcript the task appended, per connection
    dispatched,           \* every get_response call the task made, per connection
    interims,             \* non-final transcripts Deepgram reported, per stream
    lastFrame,            \* the frame websocket.receive() returned last
    endedBy,              \* what ended the endpoint's run, per connection
    process,              \* the module's import: "importing", "serving", "failed"
    timed,                \* an observer records when each transcript arrived
    emitted,              \* number of transcripts reported so far
    frames                \* number of frames clients sent so far

vars == << now, active_connections, transcription_queue, pc, hpc, wsOpen, dg,
           transcript_buffer, last_transcript_time, transcription,
           complete_text, out, fwd, lastEval, processed, dispatched,
           interims, lastFrame, endedBy, process, timed, emitted, frames >>

\* --------------------------------------------------------- string functions
\* the characters str.strip() and str.rstrip() remove, those of
\* str.isspace(): \t \n \x0b \x0c \r, \x1c-\x1f, space, \x85, \xa0, \u1680,
\* \u2000-\u200a, \u2028, \u2029, \u202f, \u205f, \u3000
Whitespace ==
    (9..13) \cup (28..32) \cup {133, 160, 5760} \cup (8192..8202)
        \cup {8232, 8233, 8239, 8287, 12288}

\* str.rstrip()
RECURSIVE rstrip(_)
rstrip(t) ==
    IF Len(t) > 0 /\ t[Len(t)] \in Whitespace
    THEN rstrip(SubSeq(t, 1, Len(t) - 1))
    ELSE t

\* str.lstrip()
RECURSIVE lstrip(_)
lstrip(t) ==
    IF Len(t) > 0 /\ t[1] \in Whitespace
    THEN lstrip(Tail(t))
    ELSE t

\* str.strip()
strip(t) == lstrip(rstrip(t))

\* str.endswith(('.', '?', '!'))
endswith(t) == Len(t) > 0 /\ t[Len(t)] \in {46, 63, 33}

\* join with an empty separator
RECURSIVE join_NoSeparator(_)
join_NoSeparator(list) ==
    IF list = << >> THEN << >>
    ELSE list[1] \o join_NoSeparator(Tail(list))

\* ' '.join(list)
RECURSIVE join(_)
join(list) ==
    IF list = << >> THEN << >>
    ELSE IF Len(list) = 1 THEN list[1]
    ELSE list[1] \o << 32 >> \o join(Tail(list))

\* IsBlank as it would be were whitespace-only transcripts handled
IsBlank_Never(t) == FALSE

\* main.py:140  not transcription or not transcription.strip()
IsBlank(t) == t = << >> \/ strip(t) = << >>

\* IsSentenceEnd without the rstrip
IsSentenceEnd_NoRstrip(t, current_time, last_time) ==
    \/ endswith(t)
    \/ (current_time - last_time) > PauseSeconds

\* IsSentenceEnd with >= for >
IsSentenceEnd_AtPause(t, current_time, last_time) ==
    \/ endswith(rstrip(t))
    \/ (current_time - last_time) >= PauseSeconds

\* main.py:157-160
IsSentenceEnd(t, current_time, last_time) ==
    \/ endswith(rstrip(t))
    \/ (current_time - last_time) > PauseSeconds

\* ---------------------------------------------------------- json.loads
\* The scanners take the text m and the index i of the next character and
\* return the index after what they accept, or 0 where the decoder raises:
\* JSONDecodeError, the ValueError of an integer literal too long to convert,
\* or RecursionError.  Each is an Exception to the receive loop.

\* the characters the decoder skips between tokens: space \t \n \r
JsonWhitespace == {32, 9, 10, 13}
JsonDigits == 48..57
\* sys.int_info.default_max_str_digits: the longest integer literal int()
\* converts
MaxStrDigits == 4300
\* sys.getrecursionlimit()
RecursionLimit == 1000
\* How many levels the scanner may enter, one for each object or array open
\* at once and one for a call of parse_constant, before RecursionError is
\* raised: the recursion limit less the depth of the stack at the call,
\* which lies with the server that runs the endpoint. The outcome grows
\* with the room, so the two ends stand for the range: a call with nothing
\* but the decoder above it (6), and a deep stack (100).
RecursionRooms == { RecursionLimit - 100, RecursionLimit - 6 }
JsonHex == (48..57) \cup (65..70) \cup (97..102)
\* the characters that may follow a backslash: " \ / b f n r t
JsonEscapes == {34, 92, 47, 98, 102, 110, 114, 116}
JsonNull == << 110, 117, 108, 108 >>
JsonTrue == << 116, 114, 117, 101 >>
JsonFalse == << 102, 97, 108, 115, 101 >>
JsonNaN == << 78, 97, 78 >>
JsonInfinity == << 73, 110, 102, 105, 110, 105, 116, 121 >>
JsonNegInfinity == << 45 >> \o JsonInfinity

RECURSIVE SkipWhitespace(_, _)
SkipWhitespace(m, i) ==
    IF i <= Len(m) /\ m[i] \in JsonWhitespace
    THEN SkipWhitespace(m, i + 1)
    ELSE i

RECURSIVE SkipDigits(_, _)
SkipDigits(m, i) ==
    IF i <= Len(m) /\ m[i] \in JsonDigits THEN SkipDigits(m, i + 1) ELSE i

\* the literal lit stands at index i of m
StartsAt(m, i, lit) ==
    /\ i + Len(lit) - 1 <= Len(m)
    /\ SubSeq(m, i, i + Len(lit) - 1) = lit

\* NUMBER_RE: (-?(?:0|[1-9]\d*))(\.\d+)?([eE][-+]?\d+)?  A match without
\* fraction and exponent is converted by int(), which raises ValueError on
\* more than MaxStrDigits digits; float() has no such limit.
ScanNumber(m, i) ==
    LET j == IF i <= Len(m) /\ m[i] = 45 THEN i + 1 ELSE i
        int == IF j <= Len(m) /\ m[j] = 48 THEN j + 1
               ELSE IF j <= Len(m) /\ m[j] \in 49..57 THEN SkipDigits(m, j + 1)
               ELSE 0
        frac == IF /\ int + 1 <= Len(m)
                   /\ m[int] = 46
                   /\ m[int + 1] \in JsonDigits
                THEN SkipDigits(m, int + 2)
                ELSE int
        sign == IF frac + 1 <= Len(m) /\ m[frac + 1] \in {43, 45}
                THEN frac + 2
                ELSE frac + 1
    IN  IF int = 0 THEN 0
        ELSE IF /\ frac <= Len(m)
                /\ m[frac] \in {101, 69}
                /\ sign <= Len(m)
                /\ m[sign] \in JsonDigits
             THEN SkipDigits(m, sign + 1)
        ELSE IF frac = int /\ int - j > MaxStrDigits THEN 0
        ELSE frac

\* scanstring, strict: i is the index after the opening quote
RECURSIVE ScanString(_, _)
ScanString(m, i) ==
    IF i > Len(m) THEN 0
    ELSE IF m[i] = 34 THEN i + 1
    ELSE IF m[i] < 32 THEN 0
    ELSE IF m[i] # 92 THEN ScanString(m, i + 1)
    ELSE IF i + 1 > Len(m) THEN 0
    ELSE IF m[i + 1] \in JsonEscapes THEN ScanString(m, i + 2)
    ELSE IF /\ m[i + 1] = 117
            /\ i + 5 <= Len(m)
            /\ \A k \in (i + 2)..(i + 5) : m[k] \in JsonHex
         THEN ScanString(m, i + 6)
    ELSE 0

RECURSIVE ScanValue(_, _, _)
RECURSIVE ScanArrayItems(_, _, _)
RECURSIVE ScanObjectItems(_, _, _)

\* JSONArray after "[": i is the index of the first item, room the number
\* of levels that may still be entered inside this one
ScanArrayItems(m, i, room) ==
    LET v == ScanValue(m, i, room)
        k == SkipWhitespace(m, v)
    IN  IF v = 0 \/ k > Len(m) THEN 0
        ELSE IF m[k] = 93 THEN k + 1
        ELSE IF m[k] = 44
             THEN ScanArrayItems(m, SkipWhitespace(m, k + 1), room)
        ELSE 0

\* JSONObject after "{": i is the index of the quote opening the first key
ScanObjectItems(m, i, room) ==
    LET key == IF i <= Len(m) /\ m[i] = 34 THEN ScanString(m, i + 1) ELSE 0
        colon == SkipWhitespace(m, key)
        v == IF key # 0 /\ colon <= Len(m) /\ m[colon] = 58
             THEN ScanValue(m, SkipWhitespace(m, colon + 1), room)
             ELSE 0
        k == SkipWhitespace(m, v)
    IN  IF v = 0 \/ k > Len(m) THEN 0
        ELSE IF m[k] = 125 THEN k + 1
        ELSE IF m[k] = 44
             THEN ScanObjectItems(m, SkipWhitespace(m, k + 1), room)
        ELSE 0

\* scan_once: the value that starts at index i. An object or an array is
\* entered through Py_EnterRecursiveCall, and NaN, Infinity and -Infinity
\* are made by a call of parse_constant, which takes a level of its own:
\* each raises RecursionError when no room is left. The other values enter
\* nothing.
ScanValue(m, i, room) ==
    IF i > Len(m) THEN 0
    ELSE IF m[i] = 34 THEN ScanString(m, i + 1)
    ELSE IF m[i] = 123
         THEN LET j == SkipWhitespace(m, i + 1)
              IN  IF room = 0 THEN 0
                  ELSE IF j <= Len(m) /\ m[j] = 125 THEN j + 1
                  ELSE ScanObjectItems(m, j, room - 1)
    ELSE IF m[i] = 91
         THEN LET j == SkipWhitespace(m, i + 1)
              IN  IF room = 0 THEN 0
                  ELSE IF j <= Len(m) /\ m[j] = 93 THEN j + 1
                  ELSE ScanArrayItems(m, j, room - 1)
    ELSE IF StartsAt(m, i, JsonNull) THEN i + 4
    ELSE IF StartsAt(m, i, JsonTrue) THEN i + 4
    ELSE IF StartsAt(m, i, JsonFalse) THEN i + 5
    ELSE IF ScanNumber(m, i) # 0 THEN ScanNumber(m, i)
    ELSE IF StartsAt(m, i, JsonNaN) THEN (IF room = 0 THEN 0 ELSE i + 3)
    ELSE IF StartsAt(m, i, JsonInfinity) THEN (IF room = 0 THEN 0 ELSE i + 8)
    ELSE IF StartsAt(m, i, JsonNegInfinity)
         THEN (IF room = 0 THEN 0 ELSE i + 9)
    ELSE 0

\* json.loads succeeds on the frame, called with that much room: one
\* value, whitespace around it, and nothing after it ("Extra data")
JsonLoads(m, room) ==
    LET v == ScanValue(m, SkipWhitespace(m, 1), room)
    IN  v # 0 /\ SkipWhitespace(m, v) = Len(m) + 1

\* ------------------------------------------------------------------- Init
NoEval == [text |-> NoText, elapsed |-> 0, boundary |-> FALSE, pre |-> << >>,
           at |-> 0, arrived |-> 0, gap |-> 0]

Init ==
    /\ now = 0
    /\ active_connections = << >>
    /\ transcription_queue = << >>
    /\ pc = [s \in Sessions |-> "new"]
    /\ hpc = [s \in Sessions |-> "none"]
    /\ wsOpen = [s \in Sessions |-> FALSE]
    /\ dg = [s \in Sessions |-> "none"]
    /\ transcript_buffer = [s \in Sessions |-> << >>]
    /\ last_transcript_time = [s \in Sessions |-> 0]
    /\ transcription = [s \in Sessions |-> NoItem]
    /\ complete_text = [s \in Sessions |-> NoText]
    /\ out = [s \in Sessions |-> << >>]
    /\ fwd = [s \in Sessions |-> << >>]
    /\ lastEval = [s \in Sessions |-> NoEval]
    /\ processed = [s \in Sessions |-> << >>]
    /\ dispatched = [s \in Sessions |-> << >>]
    /\ interims = [s \in Sessions |-> {}]
    /\ lastFrame = [s \in Sessions |-> NoFrame]
    /\ endedBy = [s \in Sessions |-> "-"]
    /\ process = "serving"
    /\ timed = FALSE
    /\ emitted = 0
    /\ frames = 0

\* ----------------------------------------------------------------- helpers
\* SendMessage as it would be were the newest message delivered first
SendMessage_Prepend(s, m) ==
    IF wsOpen[s] THEN [out EXCEPT ![s] = <<m>> \o @] ELSE out

\* ConnectionManager.send_message: websocket.send_text, any exception swallowed
SendMessage(s, m) ==
    IF wsOpen[s] THEN [out EXCEPT ![s] = Append(@, m)] ELSE out

\* list.remove(x): drops the first occurrence
RECURSIVE ListRemove(_, _)
ListRemove(list, x) ==
    IF list = << >> THEN << >>
    ELSE IF Head(list) = x THEN Tail(list)
    ELSE <<Head(list)>> \o ListRemove(Tail(list), x)

\* ManagerDisconnect as it would be were the oldest connection removed
ManagerDisconnect_First(list, s) ==
    IF list = << >> THEN list ELSE Tail(list)

\* ConnectionManager.disconnect
ManagerDisconnect(list, s) ==
    IF \E i \in 1..Len(list) : list[i] = s THEN ListRemove(list, s) ELSE list

\* Cleanup as it would be were the task left running
Cleanup_NoCancel(s) ==
    /\ dg' = [dg EXCEPT ![s] = "closed"]
    /\ pc' = [pc EXCEPT ![s] = "closing"]
    /\ UNCHANGED hpc

\* main.py:218-220: deepgram_task.cancel(); await deepgram_transcriber.close(...)
\* The task is suspended at one of its awaits; CancelledError is raised there
\* and is not an Exception, so no handler of the task catches and continues.
Cleanup(s) ==
    /\ hpc' = [hpc EXCEPT ![s] = "ended"]
    /\ dg' = [dg EXCEPT ![s] = "closed"]
    /\ pc' = [pc EXCEPT ![s] = "closing"]

\* ----------------------------------------------- websocket_audio_endpoint
\* Connect as it would be were the reference time the clock's origin
Connect_EpochReference(s) ==
    /\ process = "serving"
    /\ pc[s] = "new"
    /\ active_connections' = Append(active_connections, s)
    /\ wsOpen' = [wsOpen EXCEPT ![s] = TRUE]
    /\ transcript_buffer' = [transcript_buffer EXCEPT ![s] = << >>]
    /\ last_transcript_time' = [last_transcript_time EXCEPT ![s] = 0]
    /\ pc' = [pc EXCEPT ![s] = "starting"]
    /\ UNCHANGED << now, transcription_queue, hpc, dg, transcription,
                    complete_text, out, fwd, lastEval, processed, dispatched,
                    interims, lastFrame, emitted, frames,
                    endedBy, process, timed >>

\* main.py:124-128: manager.connect, the buffer and the reference time
Connect(s) ==
    /\ process = "serving"
    /\ pc[s] = "new"
    /\ active_connections' = Append(active_connections, s)
    /\ wsOpen' = [wsOpen EXCEPT ![s] = TRUE]
    /\ transcript_buffer' = [transcript_buffer EXCEPT ![s] = << >>]
    /\ last_transcript_time' = [last_transcript_time EXCEPT ![s] = now]
    /\ pc' = [pc EXCEPT ![s] = "starting"]
    /\ UNCHANGED << now, transcription_queue, hpc, dg, transcription,
                    complete_text, out, fwd, lastEval, processed, dispatched,
                    interims, lastFrame, emitted, frames,
                    endedBy, process, timed >>

\* main.py:132, 191: start_transcription returned a connection, task created
StartOk(s) ==
    /\ pc[s] = "starting"
    /\ dg' = [dg EXCEPT ![s] = "open"]
    /\ hpc' = [hpc EXCEPT ![s] = "get"]
    /\ pc' = [pc EXCEPT ![s] = "recv"]
    /\ UNCHANGED << now, active_connections, transcription_queue, wsOpen,
                    transcript_buffer, last_transcript_time, transcription,
                    complete_text, out, fwd, lastEval, processed, dispatched,
                    interims, lastFrame, emitted, frames,
                    endedBy, process, timed >>

\* StartFail as it would be were the failure only logged
StartFail_Silent(s, e) ==
    /\ pc[s] = "starting"
    /\ pc' = [pc EXCEPT ![s] = "notifying"]
    /\ endedBy' = [endedBy EXCEPT ![s] = "start"]
    /\ UNCHANGED << now, active_connections, transcription_queue, hpc, wsOpen,
                    dg, transcript_buffer, last_transcript_time, transcription,
                    complete_text, out, fwd, lastEval, processed, dispatched,
                    interims, lastFrame, emitted, frames,
                    process, timed >>

\* main.py:132, 222-227, deepgram_client.py:109-118: start_transcription
\* raised e; the endpoint sends str(e) and is suspended in that send
StartFail(s, e) ==
    /\ pc[s] = "starting"
    /\ out' = SendMessage(s, [type |-> "error", message |-> e])
    /\ pc' = [pc EXCEPT ![s] = "notifying"]
    /\ endedBy' = [endedBy EXCEPT ![s] = "start"]
    /\ UNCHANGED << now, active_connections, transcription_queue, hpc, wsOpen,
                    dg, transcript_buffer, last_transcript_time, transcription,
                    complete_text, fwd, lastEval, processed, dispatched,
                    interims, lastFrame, emitted, frames,
                    process, timed >>

\* main.py:225-232: the send of the error message returned, the finally
\* clause removes the connection
StartFailDone(s) ==
    /\ pc[s] = "notifying"
    /\ active_connections' = ManagerDisconnect(active_connections, s)
    /\ pc' = [pc EXCEPT ![s] = "closed"]
    /\ UNCHANGED << now, transcription_queue, hpc, wsOpen, dg,
                    transcript_buffer, last_transcript_time, transcription,
                    complete_text, out, fwd, lastEval, processed, dispatched,
                    interims, lastFrame, emitted, frames,
                    endedBy, process, timed >>

\* RecvAudio as it would be were get_response awaited by the receive loop
RecvAudio_BehindLLM(s, a) ==
    /\ pc[s] = "recv"
    /\ hpc[s] # "llm"
    /\ wsOpen[s]
    /\ frames' = frames + 1
    /\ lastFrame' = [lastFrame EXCEPT ![s] = [kind |-> "bytes", data |-> a]]
    /\ fwd' = IF dg[s] = "open" THEN [fwd EXCEPT ![s] = Append(@, a)] ELSE fwd
    /\ pc' = [pc EXCEPT ![s] = "sending"]
    /\ UNCHANGED << now, active_connections, transcription_queue, hpc,
                    wsOpen, dg, transcript_buffer, last_transcript_time,
                    transcription, complete_text, out, lastEval, processed,
                    dispatched, interims, emitted,
                    endedBy, process, timed >>

\* RecvAudio as it would be were the chunk sent twice
RecvAudio_Twice(s, a) ==
    /\ pc[s] = "recv"
    /\ wsOpen[s]
    /\ frames' = frames + 1
    /\ lastFrame' = [lastFrame EXCEPT ![s] = [kind |-> "bytes", data |-> a]]
    /\ fwd' = IF dg[s] = "open"
              THEN [fwd EXCEPT ![s] = Append(Append(@, a), a)]
              ELSE fwd
    /\ pc' = [pc EXCEPT ![s] = "sending"]
    /\ UNCHANGED << now, active_connections, transcription_queue, hpc,
                    wsOpen, dg, transcript_buffer, last_transcript_time,
                    transcription, complete_text, out, lastEval, processed,
                    dispatched, interims, emitted,
                    endedBy, process, timed >>

\* main.py:197, 204-209, deepgram_client.py:129: a binary frame is received
\* and handed to connection.send, which takes it into an open stream; the
\* endpoint is suspended in that send
RecvAudio(s, a) ==
    /\ pc[s] = "recv"
    /\ wsOpen[s]
    /\ frames' = frames + 1
    /\ lastFrame' = [lastFrame EXCEPT ![s] = [kind |-> "bytes", data |-> a]]
    /\ fwd' = IF dg[s] = "open" THEN [fwd EXCEPT ![s] = Append(@, a)] ELSE fwd
    /\ pc' = [pc EXCEPT ![s] = "sending"]
    /\ UNCHANGED << now, active_connections, transcription_queue, hpc,
                    wsOpen, dg, transcript_buffer, last_transcript_time,
                    transcription, complete_text, out, lastEval, processed,
                    dispatched, interims, emitted,
                    endedBy, process, timed >>

\* main.py:209, 194-197: send_audio returned, the loop awaits the next frame
SendAudioDone(s) ==
    /\ pc[s] = "sending"
    /\ dg[s] = "open"
    /\ pc' = [pc EXCEPT ![s] = "recv"]
    /\ UNCHANGED << now, active_connections, transcription_queue, hpc,
                    wsOpen, dg, transcript_buffer, last_transcript_time,
                    transcription, complete_text, out, fwd, lastEval,
                    processed, dispatched, interims, lastFrame, emitted,
                    frames, endedBy, process, timed >>

\* main.py:209, 214-220, deepgram_client.py:129-132: connection.send raised
\* on a dropped stream when the suspended send_audio resumed
RecvAudioFail(s) ==
    /\ pc[s] = "sending"
    /\ dg[s] = "dropped"
    /\ Cleanup(s)
    /\ endedBy' = [endedBy EXCEPT ![s] = "send_audio"]
    /\ UNCHANGED << now, active_connections, transcription_queue, wsOpen,
                    transcript_buffer, last_transcript_time, transcription,
                    complete_text, out, fwd, lastEval, processed, dispatched,
                    interims, lastFrame, emitted, frames,
                    process, timed >>

\* main.py:197-202, 214-220: a text frame; json.loads raises on a malformed one
RecvText(s, m) ==
    /\ pc[s] = "recv"
    /\ wsOpen[s]
    /\ frames' = frames + 1
    /\ lastFrame' = [lastFrame EXCEPT ![s] = [kind |-> "text", data |-> m]]
    /\ \E room \in RecursionRooms :
          IF JsonLoads(m, room)
          THEN UNCHANGED << pc, hpc, dg, endedBy >>
          ELSE /\ Cleanup(s)
               /\ endedBy' = [endedBy EXCEPT ![s] = "json"]
    /\ UNCHANGED << now, active_connections, transcription_queue, wsOpen,
                    transcript_buffer, last_transcript_time, transcription,
                    complete_text, out, fwd, lastEval, processed, dispatched,
                    interims, emitted,
                    process, timed >>

\* the client closes its side of the websocket
ClientClose(s) ==
    /\ pc[s] \in {"starting", "recv", "sending", "notifying"}
    /\ wsOpen[s]
    /\ wsOpen' = [wsOpen EXCEPT ![s] = FALSE]
    /\ UNCHANGED << now, active_connections, transcription_queue, pc, hpc, dg,
                    transcript_buffer, last_transcript_time, transcription,
                    complete_text, out, fwd, lastEval, processed, dispatched,
                    interims, lastFrame, emitted, frames,
                    endedBy, process, timed >>

\* main.py:197, 211-220: receive() on a closed websocket ends the loop
RecvDisconnect(s) ==
    /\ pc[s] = "recv"
    /\ ~wsOpen[s]
    /\ Cleanup(s)
    /\ endedBy' = [endedBy EXCEPT ![s] = "disconnect"]
    /\ UNCHANGED << now, active_connections, transcription_queue, wsOpen,
                    transcript_buffer, last_transcript_time, transcription,
                    complete_text, out, fwd, lastEval, processed, dispatched,
                    interims, lastFrame, emitted, frames,
                    process, timed >>

\* main.py:220, 231-232: close() returned, manager.disconnect
Finish(s) ==
    /\ pc[s] = "closing"
    /\ active_connections' = ManagerDisconnect(active_connections, s)
    /\ pc' = [pc EXCEPT ![s] = "closed"]
    /\ UNCHANGED << now, transcription_queue, hpc, wsOpen, dg,
                    transcript_buffer, last_transcript_time, transcription,
                    complete_text, out, fwd, lastEval, processed, dispatched,
                    interims, lastFrame, emitted, frames,
                    endedBy, process, timed >>

\* main.py:112-232: the endpoint's coroutine is cancelled at its await.
\* CancelledError is no Exception: neither except clause of the endpoint
\* catches it, the cleanup at 218-220 is skipped and only the finally runs.
\* Raised in the send of the error message (225), it is swallowed by the
\* bare except of 228-229 and the finally runs as well.
Shutdown(s) ==
    /\ pc[s] \in {"starting", "recv", "sending", "closing", "notifying"}
    /\ active_connections' = ManagerDisconnect(active_connections, s)
    /\ pc' = [pc EXCEPT ![s] = "closed"]
    /\ endedBy' = [endedBy EXCEPT ![s] =
                       IF pc[s] \in {"closing", "notifying"} THEN @
                       ELSE "cancel"]
    /\ UNCHANGED << now, transcription_queue, hpc, wsOpen, dg,
                    transcript_buffer, last_transcript_time, transcription,
                    complete_text, out, fwd, lastEval, processed, dispatched,
                    interims, lastFrame, emitted, frames, process, timed >>

\* main.py:53-54, 69-70, deepgram_client.py:35-36, groq_client.py:28-29:
\* the module builds both clients when it is imported
Import(deepgram_api_key, groq_api_key) ==
    /\ process = "importing"
    /\ process' = IF deepgram_api_key = "" \/ groq_api_key = ""
                  THEN "failed"
                  ELSE "serving"
    /\ UNCHANGED << now, active_connections, transcription_queue, pc, hpc,
                    wsOpen, dg, transcript_buffer, last_transcript_time,
                    transcription, complete_text, out, fwd, lastEval,
                    processed, dispatched, interims, lastFrame, emitted,
                    frames, endedBy, timed >>

\* ------------------------------------------------------ Deepgram's stream
\* deepgram_client.py:74-94 on_message. The program keeps no arrival time;
\* the field "at" of a queued transcript is the observer's record of it.
OnMessage(s, t, is_final) ==
    /\ dg[s] = "open"
    /\ emitted' = emitted + 1
    /\ IF Len(t) = 0
       THEN UNCHANGED << transcription_queue, interims >>
       ELSE IF is_final
       THEN /\ transcription_queue' =
                   Append(transcription_queue,
                          [text |-> t, src |-> s,
                           at |-> IF timed THEN now ELSE 0])
            /\ UNCHANGED interims
       ELSE /\ interims' = [interims EXCEPT ![s] = @ \cup {t}]
            /\ UNCHANGED transcription_queue
    /\ UNCHANGED << now, active_connections, pc, hpc, wsOpen, dg,
                    transcript_buffer, last_transcript_time, transcription,
                    complete_text, out, fwd, lastEval, processed, dispatched,
                    lastFrame, frames,
                    endedBy, process, timed >>

\* the stream drops: connection.send raises from now on
DeepgramDrop(s) ==
    /\ dg[s] = "open"
    /\ dg' = [dg EXCEPT ![s] = "dropped"]
    /\ UNCHANGED << now, active_connections, transcription_queue, pc, hpc,
                    wsOpen, transcript_buffer, last_transcript_time,
                    transcription, complete_text, out, fwd, lastEval,
                    processed, dispatched, interims, lastFrame, emitted, frames,
                    endedBy, process, timed >>

\* ----------------------------------------------- handle_deepgram_responses
\* deepgram_client.py:144-145, main.py:139-149: the next transcript of the
\* process-wide queue; blank ones are skipped, others sent to the client.
\* Every task waiting in transcription_queue.get() may be the one that gets it.
HandleTake(s) ==
    /\ hpc[s] = "get"
    /\ transcription_queue # << >>
    /\ transcription_queue' = Tail(transcription_queue)
    /\ transcription' = [transcription EXCEPT ![s] = Head(transcription_queue)]
    /\ IF IsBlank(Head(transcription_queue).text)
       THEN UNCHANGED << hpc, out >>
       ELSE /\ out' = SendMessage(s, [type |-> "transcript",
                                     text |-> Head(transcription_queue).text])
            /\ hpc' = [hpc EXCEPT ![s] = "sent"]
    /\ UNCHANGED << now, active_connections, pc, wsOpen, dg,
                    transcript_buffer, last_transcript_time, complete_text,
                    fwd, lastEval, processed, dispatched, interims, lastFrame,
                    emitted, frames,
                    endedBy, process, timed >>

\* HandleEvaluate as it would be were get_response started and not awaited
HandleEvaluate_NotAwaited(s) ==
    LET t == transcription[s].text
        buffer == Append(transcript_buffer[s], t)
        current_time == now
        is_sentence_end == IsSentenceEnd(t, current_time, last_transcript_time[s])
        fire == is_sentence_end /\ buffer # << >>
    IN  /\ hpc[s] = "sent"
        /\ last_transcript_time' = [last_transcript_time EXCEPT ![s] = current_time]
        /\ processed' = [processed EXCEPT ![s] = Append(@, t)]
        /\ lastEval' = [lastEval EXCEPT ![s] =
                [text |-> t,
                 elapsed |-> current_time - last_transcript_time[s],
                 boundary |-> fire,
                 pre |-> transcript_buffer[s],
                 at |-> current_time,
                 arrived |-> transcription[s].at,
                 gap |-> transcription[s].at - lastEval[s].arrived]]
        /\ IF fire
           THEN /\ complete_text' = [complete_text EXCEPT ![s] = strip(join(buffer))]
                /\ transcript_buffer' = [transcript_buffer EXCEPT ![s] = << >>]
                /\ dispatched' = [dispatched EXCEPT ![s] =
                        Append(@, [text |-> strip(join(buffer)),
                                   upto |-> Len(processed[s]) + 1,
                                   fwdn |-> Len(fwd[s])])]
                /\ hpc' = [hpc EXCEPT ![s] = "get"]
           ELSE /\ transcript_buffer' = [transcript_buffer EXCEPT ![s] = buffer]
                /\ hpc' = [hpc EXCEPT ![s] = "get"]
                /\ UNCHANGED << complete_text, dispatched >>
        /\ UNCHANGED << now, active_connections, transcription_queue, pc,
                        wsOpen, dg, transcription, out, fwd, interims,
                        lastFrame, emitted, frames,
                    endedBy, process, timed >>

\* HandleEvaluate as it would be were the buffer kept after a dispatch
HandleEvaluate_KeepBuffer(s) ==
    LET t == transcription[s].text
        buffer == Append(transcript_buffer[s], t)
        current_time == now
        is_sentence_end == IsSentenceEnd(t, current_time, last_transcript_time[s])
        fire == is_sentence_end /\ buffer # << >>
    IN  /\ hpc[s] = "sent"
        /\ last_transcript_time' = [last_transcript_time EXCEPT ![s] = current_time]
        /\ processed' = [processed EXCEPT ![s] = Append(@, t)]
        /\ lastEval' = [lastEval EXCEPT ![s] =
                [text |-> t,
                 elapsed |-> current_time - last_transcript_time[s],
                 boundary |-> fire,
                 pre |-> transcript_buffer[s],
                 at |-> current_time,
                 arrived |-> transcription[s].at,
                 gap |-> transcription[s].at - lastEval[s].arrived]]
        /\ IF fire
           THEN /\ complete_text' = [complete_text EXCEPT ![s] = strip(join(buffer))]
                /\ transcript_buffer' = [transcript_buffer EXCEPT ![s] = buffer]
                /\ dispatched' = [dispatched EXCEPT ![s] =
                        Append(@, [text |-> strip(join(buffer)),
                                   upto |-> Len(processed[s]) + 1,
                                   fwdn |-> Len(fwd[s])])]
                /\ hpc' = [hpc EXCEPT ![s] = "llm"]
           ELSE /\ transcript_buffer' = [transcript_buffer EXCEPT ![s] = buffer]
                /\ hpc' = [hpc EXCEPT ![s] = "get"]
                /\ UNCHANGED << complete_text, dispatched >>
        /\ UNCHANGED << now, active_connections, transcription_queue, pc,
                        wsOpen, dg, transcription, out, fwd, interims,
                        lastFrame, emitted, frames,
                    endedBy, process, timed >>

\* main.py:151-169
HandleEvaluate(s) ==
    LET t == transcription[s].text
        buffer == Append(transcript_buffer[s], t)
        current_time == now
        is_sentence_end == IsSentenceEnd(t, current_time, last_transcript_time[s])
        fire == is_sentence_end /\ buffer # << >>
    IN  /\ hpc[s] = "sent"
        /\ last_transcript_time' = [last_transcript_time EXCEPT ![s] = current_time]
        /\ processed' = [processed EXCEPT ![s] = Append(@, t)]
        /\ lastEval' = [lastEval EXCEPT ![s] =
                [text |-> t,
                 elapsed |-> current_time - last_transcript_time[s],
                 boundary |-> fire,
                 pre |-> transcript_buffer[s],
                 at |-> current_time,
                 arrived |-> transcription[s].at,
                 gap |-> transcription[s].at - lastEval[s].arrived]]
        /\ IF fire
           THEN /\ complete_text' = [complete_text EXCEPT ![s] = strip(join(buffer))]
                /\ transcript_buffer' = [transcript_buffer EXCEPT ![s] = << >>]
                /\ dispatched' = [dispatched EXCEPT ![s] =
                        Append(@, [text |-> strip(join(buffer)),
                                   upto |-> Len(processed[s]) + 1,
                                   fwdn |-> Len(fwd[s])])]
                /\ hpc' = [hpc EXCEPT ![s] = "llm"]
           ELSE /\ transcript_buffer' = [transcript_buffer EXCEPT ![s] = buffer]
                /\ hpc' = [hpc EXCEPT ![s] = "get"]
                /\ UNCHANGED << complete_text, dispatched >>
        /\ UNCHANGED << now, active_connections, transcription_queue, pc,
                        wsOpen, dg, transcription, out, fwd, interims,
                        lastFrame, emitted, frames,
                    endedBy, process, timed >>

\* LLMReturn as it would be were the llm_response sent again on return
LLMReturn_Twice(s, r) ==
    /\ hpc[s] = "llm"
    /\ out' = IF wsOpen[s]
              THEN [out EXCEPT ![s] =
                      @ \o << [type |-> "llm_response", text |-> r,
                                question |-> complete_text[s]],
                               [type |-> "llm_response", text |-> r,
                                question |-> complete_text[s]] >>]
              ELSE out
    /\ hpc' = [hpc EXCEPT ![s] = "replying"]
    /\ UNCHANGED << now, active_connections, transcription_queue, pc, wsOpen,
                    dg, transcript_buffer, last_transcript_time, transcription,
                    complete_text, fwd, lastEval, processed, dispatched,
                    interims, lastFrame, emitted, frames,
                    endedBy, process, timed >>

\* main.py:173-181, groq_client.py:69-97: get_response returned; the task
\* sends the llm_response and is suspended in that send
LLMReturn(s, r) ==
    /\ hpc[s] = "llm"
    /\ out' = SendMessage(s, [type |-> "llm_response", text |-> r,
                              question |-> complete_text[s]])
    /\ hpc' = [hpc EXCEPT ![s] = "replying"]
    /\ UNCHANGED << now, active_connections, transcription_queue, pc, wsOpen,
                    dg, transcript_buffer, last_transcript_time, transcription,
                    complete_text, fwd, lastEval, processed, dispatched,
                    interims, lastFrame, emitted, frames,
                    endedBy, process, timed >>

\* main.py:187  f"LLM error: {str(e)}"
LLMErrorPrefix == << 76, 76, 77, 32, 101, 114, 114, 111, 114, 58, 32 >>

\* main.py:183-188, groq_client.py:99-101: get_response raised; the task
\* sends the error message and is suspended in that send
LLMFail(s, e) ==
    /\ hpc[s] = "llm"
    /\ out' = SendMessage(s, [type |-> "error", message |-> LLMErrorPrefix \o e])
    /\ hpc' = [hpc EXCEPT ![s] = "replying"]
    /\ UNCHANGED << now, active_connections, transcription_queue, pc, wsOpen,
                    dg, transcript_buffer, last_transcript_time, transcription,
                    complete_text, fwd, lastEval, processed, dispatched,
                    interims, lastFrame, emitted, frames,
                    endedBy, process, timed >>

\* main.py:178-181, 185-188, 92, 138-139: the send of the reply returned and
\* the task is back at transcription_queue.get()
ReplySent(s) ==
    /\ hpc[s] = "replying"
    /\ hpc' = [hpc EXCEPT ![s] = "get"]
    /\ UNCHANGED << now, active_connections, transcription_queue, pc, wsOpen,
                    dg, transcript_buffer, last_transcript_time, transcription,
                    complete_text, out, fwd, lastEval, processed, dispatched,
                    interims, lastFrame, emitted, frames,
                    endedBy, process, timed >>

\* the event loop's clock advances
Tick ==
    /\ now' = now + 1
    /\ UNCHANGED << active_connections, transcription_queue, pc, hpc, wsOpen,
                    dg, transcript_buffer, last_transcript_time, transcription,
                    complete_text, out, fwd, lastEval, processed, dispatched,
                    interims, lastFrame, emitted, frames,
                    endedBy, process, timed >>

\* One connection through its whole life; the inputs are bounded together
Next ==
    \/ now < MaxClock /\ Tick
    \/ Connect("A")
    \/ StartOk("A")
    \/ \E e \in StartErrors : StartFail("A", e)
    \/ StartFailDone("A")
    \/ \E a \in AudioChunks : emitted + frames < MaxInputs /\ RecvAudio("A", a)
    \/ SendAudioDone("A")
    \/ RecvAudioFail("A")
    \/ \E m \in TextFrames : emitted + frames < MaxInputs /\ RecvText("A", m)
    \/ ClientClose("A")
    \/ RecvDisconnect("A")
    \/ Finish("A")
    \/ \E t \in FewTexts : emitted + frames < MaxInputs /\ OnMessage("A", t, TRUE)
    \/ DeepgramDrop("A")
    \/ HandleTake("A")
    \/ HandleEvaluate("A")
    \/ \E r \in Responses : LLMReturn("A", r)
    \/ \E e \in LLMErrors : LLMFail("A", e)
    \/ ReplySent("A")
    \/ Shutdown("A")

Spec == Init /\ [][Next]_vars

\* The same from the import of the module on
InitBoot ==
    /\ now = 0
    /\ active_connections = << >>
    /\ transcription_queue = << >>
    /\ pc = [s \in Sessions |-> "new"]
    /\ hpc = [s \in Sessions |-> "none"]
    /\ wsOpen = [s \in Sessions |-> FALSE]
    /\ dg = [s \in Sessions |-> "none"]
    /\ transcript_buffer = [s \in Sessions |-> << >>]
    /\ last_transcript_time = [s \in Sessions |-> 0]
    /\ transcription = [s \in Sessions |-> NoItem]
    /\ complete_text = [s \in Sessions |-> NoText]
    /\ out = [s \in Sessions |-> << >>]
    /\ fwd = [s \in Sessions |-> << >>]
    /\ lastEval = [s \in Sessions |-> NoEval]
    /\ processed = [s \in Sessions |-> << >>]
    /\ dispatched = [s \in Sessions |-> << >>]
    /\ interims = [s \in Sessions |-> {}]
    /\ lastFrame = [s \in Sessions |-> NoFrame]
    /\ endedBy = [s \in Sessions |-> "-"]
    /\ process = "importing"
    /\ timed = FALSE
    /\ emitted = 0
    /\ frames = 0

NextBoot ==
    \/ \E dk \in ApiKeys, gk \in ApiKeys : Import(dk, gk)
    \/ Next

SpecBoot == InitBoot /\ [][NextBoot]_vars

\* One connection's buffer under everything that runs beside its task:
\* interim and final reports, frames of the receive loop and the clock
NextBuffer ==
    \/ now < MaxClock /\ Tick
    \/ Connect("A")
    \/ StartOk("A")
    \/ \E a \in AudioChunks : emitted + frames < MaxMixed /\ RecvAudio("A", a)
    \/ SendAudioDone("A")
    \/ \E m \in TextFrames : emitted + frames < MaxMixed /\ RecvText("A", m)
    \/ \E t \in FragTexts :
          emitted + frames < MaxMixed /\ OnMessage("A", t, TRUE)
    \/ \E t \in PartialTexts :
          emitted + frames < MaxMixed /\ OnMessage("A", t, FALSE)
    \/ HandleTake("A")
    \/ HandleEvaluate("A")
    \/ \E r \in Responses : LLMReturn("A", r)
    \/ \E e \in LLMErrors : LLMFail("A", e)
    \/ ReplySent("A")

SpecBuffer == Init /\ [][NextBuffer]_vars

\* The task of s can run: it is in transcription_queue.get() and the queue
\* holds a transcript
TaskReady(s) ==
    hpc[s] = "get" /\ transcription_queue # << >>

\* The task of s is suspended in websocket.send_text, for a transcript
\* message or for a reply
SendPending(s) ==
    hpc[s] \in {"sent", "replying"}

\* The same initial state, observed: arrival times are recorded
InitLatency ==
    /\ now = 0
    /\ active_connections = << >>
    /\ transcription_queue = << >>
    /\ pc = [s \in Sessions |-> "new"]
    /\ hpc = [s \in Sessions |-> "none"]
    /\ wsOpen = [s \in Sessions |-> FALSE]
    /\ dg = [s \in Sessions |-> "none"]
    /\ transcript_buffer = [s \in Sessions |-> << >>]
    /\ last_transcript_time = [s \in Sessions |-> 0]
    /\ transcription = [s \in Sessions |-> NoItem]
    /\ complete_text = [s \in Sessions |-> NoText]
    /\ out = [s \in Sessions |-> << >>]
    /\ fwd = [s \in Sessions |-> << >>]
    /\ lastEval = [s \in Sessions |-> NoEval]
    /\ processed = [s \in Sessions |-> << >>]
    /\ dispatched = [s \in Sessions |-> << >>]
    /\ interims = [s \in Sessions |-> {}]
    /\ lastFrame = [s \in Sessions |-> NoFrame]
    /\ endedBy = [s \in Sessions |-> "-"]
    /\ process = "serving"
    /\ timed = TRUE
    /\ emitted = 0
    /\ frames = 0

\* One connection's task with the event loop resuming a ready task at
\* once and a client that takes each message at once: of the runs of the
\* program, those where the clock advances only while the task waits for a
\* transcript in transcription_queue.get() or for get_response
NextLatency ==
    \/ now < MaxWait /\ ~TaskReady("A") /\ ~SendPending("A") /\ Tick
    \/ Connect("A")
    \/ StartOk("A")
    \/ \E t \in FewTexts : emitted < MaxHeard /\ OnMessage("A", t, TRUE)
    \/ HandleTake("A")
    \/ HandleEvaluate("A")
    \/ \E r \in Responses : LLMReturn("A", r)
    \/ \E e \in LLMErrors : LLMFail("A", e)
    \/ ReplySent("A")

SpecLatency == InitLatency /\ [][NextLatency]_vars

\* Two connections through the ways an endpoint's run can end
NextRegistry ==
    \/ \E s \in Sessions : Connect(s)
    \/ \E s \in Sessions : StartOk(s)
    \/ \E s \in Sessions : \E e \in StartErrors : StartFail(s, e)
    \/ \E s \in Sessions : StartFailDone(s)
    \/ \E s \in Sessions : DeepgramDrop(s)
    \/ \E s \in Sessions : \E a \in AudioChunks :
          frames < MaxFrames /\ RecvAudio(s, a)
    \/ \E s \in Sessions : SendAudioDone(s)
    \/ \E s \in Sessions : RecvAudioFail(s)
    \/ \E s \in Sessions : \E m \in TextFrames :
          frames < MaxFrames /\ RecvText(s, m)
    \/ \E s \in Sessions : ClientClose(s)
    \/ \E s \in Sessions : RecvDisconnect(s)
    \/ \E s \in Sessions : Finish(s)
    \/ \E s \in Sessions : Shutdown(s)

SpecRegistry == Init /\ [][NextRegistry]_vars

\* Several connections of the process, which share deepgram_transcriber
NextShared ==
    \/ \E s \in Sessions : Connect(s)
    \/ \E s \in Sessions : StartOk(s)
    \/ \E s \in Sessions : \E e \in StartErrors : StartFail(s, e)
    \/ \E s \in Sessions : StartFailDone(s)
    \/ \E s \in Sessions : ClientClose(s)
    \/ \E s \in Sessions : RecvDisconnect(s)
    \/ \E s \in Sessions : Finish(s)
    \/ \E s \in Sessions, t \in FewTexts : emitted < MaxShared /\ OnMessage(s, t, TRUE)
    \/ \E s \in Sessions : HandleTake(s)
    \/ \E s \in Sessions : HandleEvaluate(s)
    \/ \E s \in Sessions, r \in Responses : LLMReturn(s, r)
    \/ \E s \in Sessions : ReplySent(s)

SpecShared == Init /\ [][NextShared]_vars

\* One connection and its task, with every transcript and the full clock
NextTurns ==
    \/ now < MaxTime /\ Tick
    \/ Connect("A")
    \/ StartOk("A")
    \/ \E t \in FragTexts, f \in BOOLEAN :
          emitted < MaxEmit /\ (f \/ t \in InterimTexts) /\ OnMessage("A", t, f)
    \/ HandleTake("A")
    \/ HandleEvaluate("A")
    \/ \E r \in Responses : LLMReturn("A", r)
    \/ \E e \in LLMErrors : LLMFail("A", e)
    \/ ReplySent("A")

SpecTurns == Init /\ [][NextTurns]_vars

\* ------------------------------------------------------------ properties
\* The text ends with '.', '?' or '!' once its trailing whitespace is set aside
TerminalPunct(t) ==
    \E i \in 1..Len(t) :
        /\ t[i] \in {46, 63, 33}
        /\ \A j \in (i + 1)..Len(t) : t[j] \in Whitespace

\* The first n texts of the list, in order, with one space between neighbours
RECURSIVE SpaceJoined(_, _)
SpaceJoined(list, n) ==
    IF n = 0 THEN << >>
    ELSE IF n = 1 THEN list[1]
    ELSE SpaceJoined(list, n - 1) \o << 32 >> \o list[n]

\* r is x without its leading and trailing whitespace
IsTrimOf(r, x) ==
    \E i \in 1..(Len(x) + 1) : \E j \in 0..Len(x) :
        /\ r = SubSeq(x, i, j)
        /\ \A k \in 1..(i - 1) : x[k] \in Whitespace
        /\ \A k \in (j + 1)..Len(x) : x[k] \in Whitespace
        /\ r # << >> => (r[1] \notin Whitespace /\ r[Len(r)] \notin Whitespace)

\* The transcripts the task appended between its (i-1)-th and i-th dispatch
Utterance(s, i) ==
    SubSeq(processed[s],
           (IF i = 1 THEN 0 ELSE dispatched[s][i - 1].upto) + 1,
           dispatched[s][i].upto)

Evaluated(s) == lastEval[s] # NoEval

\* C1: a non-blank final transcript that ends with '.', '?' or '!' after its
\* trailing whitespace is trimmed is a turn boundary whatever the time since
\* the previous transcript: the buffer is drained and the question dispatched.
C1_PunctuationIsBoundary ==
    \A s \in Sessions :
        (Evaluated(s) /\ TerminalPunct(lastEval[s].text))
            => /\ lastEval[s].boundary
               /\ transcript_buffer[s] = << >>
               /\ dispatched[s] # << >>
               /\ dispatched[s][Len(dispatched[s])].upto = Len(processed[s])

\* C1 witness: "ok. " evaluated in the same second as the reference time
C1_Witness ==
    /\ lastEval["A"].text = TxtOk
    /\ lastEval["A"].elapsed = 0
    /\ lastEval["A"].boundary
    /\ hpc["A"] = "llm"

\* C2: a non-blank final transcript that does not end with '.', '?' or '!' is
\* a turn boundary exactly when more than 3 seconds passed since the previous
\* transcript; at 3 seconds or less it is appended and stays in the buffer.
C2_PauseIsStrict ==
    \A s \in Sessions :
        (Evaluated(s) /\ ~TerminalPunct(lastEval[s].text))
            => /\ lastEval[s].boundary <=> lastEval[s].elapsed > 3
               /\ lastEval[s].elapsed <= 3 =>
                    transcript_buffer[s] = Append(lastEval[s].pre, lastEval[s].text)
               /\ lastEval[s].elapsed > 3 => transcript_buffer[s] = << >>

\* C2 witness: "So" evaluated exactly 3 seconds after the reference time
C2_Witness ==
    /\ lastEval["A"].text = TxtSo
    /\ lastEval["A"].elapsed = 3
    /\ ~lastEval["A"].boundary
    /\ transcript_buffer["A"] # << >>

\* C3: every question given to get_response is the transcripts appended since
\* the previous dispatch (or since the connection started), in order, joined
\* with single spaces and trimmed; while the call is awaited the buffer is
\* already empty.
C3_DispatchedText ==
    \A s \in Sessions :
        /\ \A i \in 1..Len(dispatched[s]) :
              IsTrimOf(dispatched[s][i].text,
                       SpaceJoined(Utterance(s, i), Len(Utterance(s, i))))
        /\ hpc[s] = "llm" =>
              /\ transcript_buffer[s] = << >>
              /\ dispatched[s] # << >>
              /\ complete_text[s] = dispatched[s][Len(dispatched[s])].text

\* C3 witness: after a first dispatch, "So" then "you?" go out as "So you?"
C3_Witness ==
    /\ Len(dispatched["A"]) = 2
    /\ Utterance("A", 2) = << TxtSo, TxtYou >>
    /\ complete_text["A"] = TxtSoYou
    /\ hpc["A"] = "llm"
    /\ transcript_buffer["A"] = << >>

\* Nothing is waiting for the task of s and the task is idle
Quiescent(s) ==
    /\ hpc[s] = "get"
    /\ transcription_queue = << >>
    /\ wsOpen[s]

\* C4: every interim transcript Deepgram reports has been forwarded to the
\* client as a transcript message once the connection's task has nothing
\* left to handle.
C4_InterimForwarded ==
    \A s \in Sessions : \A t \in interims[s] :
        Quiescent(s) =>
            \E i \in 1..Len(out[s]) :
                out[s][i] = [type |-> "transcript", text |-> t]

\* C5: when a boundary fires because more than 3 seconds passed after buffered
\* transcripts, the question dispatched is the transcripts buffered before the
\* gap, without the transcript that arrived after it.
C5_GapDispatchesBuffered ==
    \A s \in Sessions :
        ( /\ Evaluated(s)
          /\ lastEval[s].pre # << >>
          /\ ~TerminalPunct(lastEval[s].text)
          /\ lastEval[s].elapsed > 3
          /\ hpc[s] = "llm" )
            => IsTrimOf(complete_text[s],
                        SpaceJoined(lastEval[s].pre, Len(lastEval[s].pre)))

\* C6: a transcript reported on one connection's Deepgram stream is taken
\* only by that connection's task (and so sent to and buffered for that
\* connection alone).
C6_OwnTranscriptsOnly ==
    \A s \in Sessions : transcription[s].src \in {s, "-"}

\* C7: while get_response is awaited for a connection, a transcript waiting
\* in the queue can still be taken and sent to the client.
C7_DisplayDuringLLM ==
    \A s \in Sessions :
        (hpc[s] = "llm" /\ transcription_queue # << >>) => ENABLED HandleTake(s)

\* C8: while get_response is awaited for a connection whose endpoint is
\* running and whose client and Deepgram stream are open, the receive loop
\* accepts a binary frame and forwards it, or is in the send of the frame
\* it accepted last, which can return.
C8_AudioDuringLLM ==
    \A s \in Sessions :
        (hpc[s] = "llm" /\ pc[s] # "closed" /\ wsOpen[s] /\ dg[s] = "open")
            => \/ \A a \in AudioChunks : ENABLED RecvAudio(s, a)
               \/ pc[s] = "sending" /\ ENABLED SendAudioDone(s)

\* C8 witness: a frame was forwarded after the dispatch whose get_response
\* is still awaited
C8_Witness ==
    /\ hpc["A"] = "llm"
    /\ pc["A"] = "recv"
    /\ wsOpen["A"]
    /\ dg["A"] = "open"
    /\ Len(fwd["A"]) > dispatched["A"][Len(dispatched["A"])].fwdn

\* q occurs in m
Contains(m, q) ==
    \E i \in 1..(Len(m) - Len(q) + 1) : SubSeq(m, i, i + Len(q) - 1) = q

\* C9: the error message sent for a failed get_response names the question
\* that failed.
C9_ErrorNamesQuestion ==
    \A s \in Sessions : \A i \in 1..Len(out[s]) :
        (out[s][i].type = "error" /\ out[s][i].message \notin StartErrors)
            => \E k \in 1..Len(dispatched[s]) :
                  Contains(out[s][i].message, dispatched[s][k].text)

\* C10: after a malformed text frame, with the client still connected, the
\* connection is still in its receive loop, its task is not cancelled and its
\* Deepgram stream is not closed.
C10_MalformedIgnored ==
    \A s \in Sessions :
        ( /\ lastFrame[s].kind = "text"
          /\ \A room \in RecursionRooms : ~JsonLoads(lastFrame[s].data, room)
          /\ wsOpen[s] )
            => /\ pc[s] = "recv"
               /\ hpc[s] # "ended"
               /\ dg[s] # "closed"

\* C11: when send_audio failed on a dropped stream and the client is still
\* connected, an error message other than an LLM error has been sent to the
\* client by the time the session is closing.
C11_DropSurfaced ==
    \A s \in Sessions :
        (endedBy[s] = "send_audio" /\ wsOpen[s])
            => \E i \in 1..Len(out[s]) :
                  /\ out[s][i].type = "error"
                  /\ ~Contains(out[s][i].message, LLMErrorPrefix)

\* The error messages a failed start may send
StartErrorMessages == { [type |-> "error", message |-> e] : e \in StartErrors }

\* After a failed start the endpoint is sending the error message or has
\* ended; it has no task and no stream and forwarded nothing; once ended it
\* is out of the registry; the connection was sent one error message that
\* carries the failure, or nothing when the client had gone
StartFailureHandled ==
    \A s \in Sessions :
        endedBy[s] = "start"
            => /\ pc[s] \in {"notifying", "closed"}
               /\ hpc[s] = "none"
               /\ dg[s] = "none"
               /\ fwd[s] = << >>
               /\ pc[s] = "closed" =>
                     \A i \in 1..Len(active_connections) :
                         active_connections[i] # s
               /\ \/ \E m \in StartErrorMessages : out[s] = << m >>
                  \/ out[s] = << >> /\ ~wsOpen[s]

\* One step takes an endpoint that is sending the error message nowhere but
\* to its end, and sends nothing more
StartFailureEnds ==
    \A s \in Sessions :
        pc[s] = "notifying"
            => /\ pc'[s] \in {"notifying", "closed"}
               /\ out'[s] = out[s]

\* C12: when start_transcription raises after the connection was accepted,
\* the endpoint ends without becoming active: no task exists, no frame was
\* forwarded, no Deepgram stream is open, a client still connected is sent
\* exactly one message, the error message that carries the failure, and the
\* endpoint goes from that send to its end, where the connection is out of
\* the registry.
C12_StartFailureCloses ==
    [](StartFailureHandled) /\ [][StartFailureEnds]_vars

\* C12 witness: the start failed for a connected client, who got the
\* message of deepgram_client.py:114, and the endpoint has ended
C12_Witness ==
    /\ endedBy["A"] = "start"
    /\ wsOpen["A"]
    /\ pc["A"] = "closed"
    /\ out["A"] = << [type |-> "error", message |-> TxtStartFailed] >>
    /\ active_connections = << >>

\* C13: the process serves whatever the values of its two API keys: no
\* import ends with the process failed.
C13_ServesWithoutKeys ==
    process # "failed"

\* The texts of the transcript messages sent to s, in the order sent
TranscriptTexts(s) ==
    LET sent == SelectSeq(out[s], LAMBDA m : m.type = "transcript")
    IN  [i \in 1..Len(sent) |-> sent[i].text]

\* m answers a dispatched question: an llm_response or an LLM error
IsReply(m) ==
    \/ m.type = "llm_response"
    \/ m.type = "error" /\ m.message \notin StartErrors

\* The transcripts the task of s took and sent so far, in the order taken
TakenNonBlank(s) ==
    processed[s] \o (IF hpc[s] = "sent" THEN << transcription[s].text >> ELSE << >>)

\* One step keeps the queue first-in first-out: a report is put at its end,
\* and the transcript a task takes is its head
QueueIsFifo ==
    transcription_queue' # transcription_queue =>
        \/ /\ Len(transcription_queue') = Len(transcription_queue) + 1
           /\ SubSeq(transcription_queue', 1, Len(transcription_queue)) =
                 transcription_queue
        \/ \E s \in Sessions :
              /\ transcription_queue' = Tail(transcription_queue)
              /\ transcription'[s] = Head(transcription_queue)

\* What is true of the messages sent to a connected client at every moment
\* (a task cancelled while it sent a transcript has not evaluated it)
RepliesFollowTranscripts ==
    \A s \in Sessions :
        wsOpen[s] =>
            /\ \/ TranscriptTexts(s) = TakenNonBlank(s)
               \/ /\ hpc[s] = "ended"
                  /\ TranscriptTexts(s) =
                        Append(processed[s], transcription[s].text)
            /\ \A p \in 1..Len(out[s]) :
                  IsReply(out[s][p]) =>
                      LET k == Cardinality({i \in 1..p : IsReply(out[s][i])})
                          before == Cardinality({i \in 1..p :
                                        out[s][i].type = "transcript"})
                      IN  /\ k <= Len(dispatched[s])
                          /\ before >= dispatched[s][k].upto
                          /\ SubSeq(TranscriptTexts(s),
                                    dispatched[s][k].upto - Len(Utterance(s, k)) + 1,
                                    dispatched[s][k].upto) = Utterance(s, k)
                          /\ out[s][p].type = "llm_response" =>
                                out[s][p].question = dispatched[s][k].text

\* C14: transcripts leave the queue in the order Deepgram reported them and
\* the transcript messages sent to a client are the non-blank ones its task
\* took, in that order; the k-th llm_response or LLM error message comes
\* after the transcript messages of every transcript of the k-th utterance.
C14_OrderedDelivery ==
    [](RepliesFollowTranscripts) /\ [][QueueIsFifo]_vars

\* C14 witness: two transcripts were sent before the reply to the question
\* they make, and a third after it
C14_Witness ==
    /\ Len(out["A"]) = 4
    /\ out["A"][1] = [type |-> "transcript", text |-> TxtSo]
    /\ out["A"][2] = [type |-> "transcript", text |-> TxtYou]
    /\ IsReply(out["A"][3])
    /\ out["A"][4].type = "transcript"
    /\ Len(Utterance("A", 1)) = 2

\* The receive loop of s was left and the cleanup at main.py:219-220 has run
CleanedUp(s) ==
    /\ pc[s] \in {"closing", "closed"}
    /\ endedBy[s] \in {"disconnect", "send_audio", "json"}

\* One step sends nothing after the cleanup, and a step of the task whose
\* client is gone delivers nothing and leaves the task running unless the
\* same step is the cleanup
SilentAfterCleanup ==
    \A s \in Sessions :
        /\ CleanedUp(s) => out'[s] = out[s]
        /\ (~wsOpen[s] /\ hpc'[s] # hpc[s]) =>
              /\ out'[s] = out[s]
              /\ hpc'[s] = "ended" =>
                    (pc[s] \in {"recv", "sending"} /\ pc'[s] = "closing")
        /\ (~wsOpen[s] /\ pc[s] = "starting" /\ pc'[s] = "notifying") =>
              out'[s] = out[s]
        /\ (~wsOpen[s] /\ pc[s] = "notifying" /\ pc'[s] # pc[s]) =>
              /\ pc'[s] = "closed"
              /\ \A i \in 1..Len(active_connections') : active_connections'[i] # s

\* The task of s has ended only if the cleanup cancelled it
EndedByCleanup ==
    \A s \in Sessions : hpc[s] = "ended" => CleanedUp(s)

\* C15: after the receive loop was left and the cleanup has run, no message
\* is sent to the connection; a send to a client that has gone delivers
\* nothing and ends neither the task nor the endpoint, which go on to their
\* next step.
C15_NoSendAfterClose ==
    [](EndedByCleanup) /\ [][SilentAfterCleanup]_vars

\* C15 witness: the task sent a transcript to a client that had gone and
\* went on to buffer it; the endpoint then closed with a transcript waiting
C15_Witness ==
    /\ pc["A"] = "closed"
    /\ endedBy["A"] = "disconnect"
    /\ ~wsOpen["A"]
    /\ processed["A"] # << >>
    /\ out["A"] = << >>
    /\ transcription_queue # << >>
    /\ hpc["A"] = "ended"

\* One step that receives a frame hands a binary frame to an open stream as
\* the next chunk and hands nothing else; a step that receives no frame
\* forwards nothing
FrameForwardedOnce ==
    IF frames' = frames
    THEN fwd' = fwd
    ELSE \E s \in Sessions :
            /\ pc[s] = "recv"
            /\ lastFrame'[s].kind \in {"bytes", "text"}
            /\ \A o \in Sessions \ {s} : fwd'[o] = fwd[o]
            /\ fwd'[s] = IF lastFrame'[s].kind = "bytes" /\ dg[s] = "open"
                         THEN Append(fwd[s], lastFrame'[s].data)
                         ELSE fwd[s]

\* C16: each binary frame received by a running receive loop whose stream is
\* open is handed to the stream once, as received and after the frames
\* received before it; a text frame is never handed to the stream.
C16_FramesForwardedVerbatim ==
    [][FrameForwardedOnce]_vars

\* C16 witness: of three frames the two binary ones were forwarded in the
\* order received and the text frame, the last, was not
C16_Witness ==
    /\ pc["A"] = "recv"
    /\ frames = 3
    /\ fwd["A"] = << "a2", "a1" >>
    /\ lastFrame["A"].kind = "text"
    /\ lastFrame["A"].data = FrameMeta

\* C17: every question given to get_response is a non-empty text made of at
\* least one transcript, and the question of a call that is awaited is
\* non-empty.
C17_NoEmptyDispatch ==
    \A s \in Sessions :
        /\ \A i \in 1..Len(dispatched[s]) :
              /\ dispatched[s][i].text # << >>
              /\ Utterance(s, i) # << >>
        /\ hpc[s] = "llm" => complete_text[s] \notin {<< >>, NoText}

\* C17 witness: after one dispatch a whitespace-only transcript was taken
\* more than 3 seconds after the reference time with the buffer empty, and
\* nothing was dispatched for it
C17_Witness ==
    /\ Len(dispatched["A"]) = 1
    /\ dispatched["A"][1].text # << >>
    /\ transcription["A"].text = TxtBlank
    /\ transcript_buffer["A"] = << >>
    /\ now - last_transcript_time["A"] > PauseSeconds
    /\ hpc["A"] = "get"

\* C18: an endpoint that became active and has ended has cancelled its task
\* and closed its Deepgram stream, whatever ended it.
C18_CloseCancelsAndCloses ==
    \A s \in Sessions :
        (pc[s] = "closed" /\ hpc[s] # "none")
            => /\ hpc[s] = "ended"
               /\ dg[s] = "closed"

\* t has a character that is not whitespace
HasText(t) == \E i \in 1..Len(t) : t[i] \notin Whitespace

\* The number of transcripts processed when the buffer of s was last emptied
LastUpto(s) ==
    IF dispatched[s] = << >> THEN 0 ELSE dispatched[s][Len(dispatched[s])].upto

\* The buffer of s holds the transcripts evaluated since it was last emptied,
\* in the order taken, none of them blank and none an interim report
BufferHoldsFinals ==
    \A s \in Sessions :
        /\ transcript_buffer[s] =
              SubSeq(processed[s], LastUpto(s) + 1, Len(processed[s]))
        /\ \A i \in 1..Len(transcript_buffer[s]) :
              /\ HasText(transcript_buffer[s][i])
              /\ transcript_buffer[s][i] \notin interims[s]

\* One step changes the buffer only as the task's evaluation of a taken
\* transcript; a report or a frame leaves it alone, an interim or empty
\* report leaves the queue alone, and the take of a blank transcript leaves
\* the task where it was, with its buffer, reference time and record of
\* evaluations and dispatches as they were
BufferOnlyByTask ==
    \A s \in Sessions :
        /\ transcript_buffer'[s] # transcript_buffer[s] =>
              /\ hpc[s] = "sent"
              /\ frames' = frames
              /\ emitted' = emitted
        /\ interims' # interims => transcription_queue' = transcription_queue
        /\ (emitted' # emitted /\ transcription_queue' # transcription_queue) =>
              transcription_queue'[Len(transcription_queue')].text # << >>
        /\ ( /\ hpc[s] = "get"
             /\ transcription'[s] # transcription[s]
             /\ ~HasText(transcription'[s].text) ) =>
              /\ hpc'[s] = "get"
              /\ transcript_buffer'[s] = transcript_buffer[s]
              /\ last_transcript_time'[s] = last_transcript_time[s]
              /\ lastEval'[s] = lastEval[s]
              /\ processed'[s] = processed[s]
              /\ dispatched'[s] = dispatched[s]
              /\ out'[s] = out[s]

\* C19: the buffer always holds exactly the non-blank final transcripts
\* evaluated since it was last emptied, in the order they arrived; only the
\* task changes it, never a frame of the receive loop or a report of
\* Deepgram; a blank transcript is skipped without touching the buffer or
\* the reference time and without an evaluation.
C19_BufferDiscipline ==
    [](BufferHoldsFinals) /\ [][BufferOnlyByTask]_vars

\* C19 witness: with "So" buffered, a frame received and the clock past the
\* reference time, a whitespace-only transcript was taken and skipped
C19_Witness ==
    /\ transcript_buffer["A"] = << TxtSo >>
    /\ transcription["A"].text = TxtBlank
    /\ hpc["A"] = "get"
    /\ lastFrame["A"].kind = "bytes"
    /\ now > last_transcript_time["A"]
    /\ lastEval["A"].text = TxtSo

\* While the buffer of s is empty after an evaluation, that evaluation was
\* the boundary that emptied it and the reference time is its moment; a
\* transcript without final punctuation evaluated on an empty buffer more
\* than 3 seconds after its reference time was dispatched by itself
ReferenceIsLastClear ==
    \A s \in Sessions :
        /\ (Evaluated(s) /\ transcript_buffer[s] = << >>) =>
              /\ lastEval[s].boundary
              /\ last_transcript_time[s] = lastEval[s].at
        /\ ( /\ Evaluated(s)
             /\ lastEval[s].pre = << >>
             /\ ~TerminalPunct(lastEval[s].text)
             /\ lastEval[s].elapsed > PauseSeconds ) =>
              /\ lastEval[s].boundary
              /\ transcript_buffer[s] = << >>
              /\ dispatched[s] # << >>
              /\ Utterance(s, Len(dispatched[s])) = << lastEval[s].text >>
              /\ IsTrimOf(dispatched[s][Len(dispatched[s])].text, lastEval[s].text)

\* One step sets the reference time of s to the clock when the connection is
\* accepted, changes it afterwards only in an evaluation, and an evaluation
\* on an empty buffer measures the time elapsed from the stored reference
ReferenceSteps ==
    \A s \in Sessions :
        /\ (pc[s] = "new" /\ pc'[s] # "new") => last_transcript_time'[s] = now
        /\ last_transcript_time'[s] # last_transcript_time[s] =>
              pc[s] = "new" \/ hpc[s] = "sent"
        /\ (processed'[s] # processed[s] /\ transcript_buffer[s] = << >>) =>
              /\ lastEval'[s].pre = << >>
              /\ lastEval'[s].at = now
              /\ lastEval'[s].at - lastEval'[s].elapsed = last_transcript_time[s]

\* C20: the first transcript of a new utterance is measured against the
\* moment the buffer was last emptied, or against the moment the connection
\* was accepted when nothing was dispatched yet, so that a single transcript
\* without final punctuation evaluated more than 3 seconds after that moment
\* is dispatched alone.
C20_FirstFragmentReference ==
    [](ReferenceIsLastClear) /\ [][ReferenceSteps]_vars

\* C20 witness: 4 seconds after the dispatch that emptied the buffer, "So"
\* was evaluated and dispatched alone
C20_Witness ==
    /\ Len(dispatched["A"]) = 2
    /\ lastEval["A"].pre = << >>
    /\ lastEval["A"].text = TxtSo
    /\ lastEval["A"].elapsed = 4
    /\ lastEval["A"].boundary
    /\ complete_text["A"] = TxtSo
    /\ hpc["A"] = "llm"

\* C21: a transcript without final punctuation that arrived from Deepgram
\* less than 3 seconds after the transcript before it is no turn boundary,
\* however long a get_response call between the two evaluations took.
C21_DecisionByArrival ==
    \A s \in Sessions :
        ( /\ Evaluated(s)
          /\ Len(processed[s]) >= 2
          /\ ~TerminalPunct(lastEval[s].text)
          /\ lastEval[s].gap < PauseSeconds )
            => ~lastEval[s].boundary

\* The replies sent to s so far, in the order sent
Replies(s) == SelectSeq(out[s], IsReply)

\* C22: for a connection whose client is connected and whose task was not
\* cancelled, every dispatched question has exactly one reply, except the
\* one whose get_response is still awaited, which has none yet; the k-th
\* reply is either an llm_response with a response text and the k-th
\* question, or an LLM error message. No connection is ever sent more
\* replies than it has dispatched questions.
C22_OneReplyPerBoundary ==
    \A s \in Sessions :
        /\ Len(Replies(s)) <= Len(dispatched[s])
        /\ (wsOpen[s] /\ hpc[s] # "ended") =>
              /\ Len(Replies(s)) =
                    Len(dispatched[s]) - (IF hpc[s] = "llm" THEN 1 ELSE 0)
              /\ \A k \in 1..Len(Replies(s)) :
                    \/ /\ Replies(s)[k].type = "llm_response"
                       /\ Replies(s)[k].text \in Responses
                       /\ Replies(s)[k].question = dispatched[s][k].text
                    \/ /\ Replies(s)[k].type = "error"
                       /\ \E e \in LLMErrors :
                             Replies(s)[k].message = LLMErrorPrefix \o e

\* C22 witness: two questions were dispatched; the first call returned and
\* the second failed, and the client got one reply for each
C22_Witness ==
    /\ wsOpen["A"]
    /\ hpc["A"] = "get"
    /\ Len(dispatched["A"]) = 2
    /\ Len(Replies("A")) = 2
    /\ Replies("A")[1].type = "llm_response"
    /\ Replies("A")[2].type = "error"

\* The get_response calls of s that were made and not yet answered
Outstanding(s) == Len(dispatched[s]) - Len(Replies(s))

\* A connected client whose task runs has one unanswered call while its
\* task awaits get_response and none otherwise
OneCallAtATime ==
    \A s \in Sessions :
        (wsOpen[s] /\ hpc[s] # "ended") =>
            Outstanding(s) = (IF hpc[s] = "llm" THEN 1 ELSE 0)

\* One step dispatches at most one question, after the questions dispatched
\* before it, made of later transcripts than theirs, and only when the task
\* awaits no call and every earlier call of a connected client was answered
DispatchInTurn ==
    \A s \in Sessions :
        dispatched'[s] # dispatched[s] =>
            /\ Len(dispatched'[s]) = Len(dispatched[s]) + 1
            /\ SubSeq(dispatched'[s], 1, Len(dispatched[s])) = dispatched[s]
            /\ dispatched'[s][Len(dispatched'[s])].upto > LastUpto(s)
            /\ hpc[s] = "sent"
            /\ hpc'[s] = "llm"
            /\ wsOpen[s] => Outstanding(s) = 0

\* C23: a connection has at most one get_response call outstanding; its
\* questions are dispatched in the order their boundaries were detected, and
\* none is dispatched before the reply to the one before it was sent.
C23_SerialCalls ==
    [](OneCallAtATime) /\ [][DispatchInTurn]_vars

\* C23 witness: the second question is awaited after the reply to the first
C23_Witness ==
    /\ wsOpen["A"]
    /\ hpc["A"] = "llm"
    /\ Len(dispatched["A"]) = 2
    /\ Len(Replies("A")) = 1
    /\ pc["A"] = "recv"

\* The first n texts of list, one after the other
RECURSIVE Flat(_, _)
Flat(list, n) ==
    IF n = 0 THEN << >> ELSE Flat(list, n - 1) \o list[n]

\* The characters of x that are not whitespace, in order
NonSpace(x) == SelectSeq(x, LAMBDA c : c \notin Whitespace)

\* The questions dispatched for s, in order
DispatchedTexts(s) == [i \in 1..Len(dispatched[s]) |-> dispatched[s][i].text]

\* C24: the questions dispatched so far followed by the transcripts in the
\* buffer are, whitespace aside, the transcripts the task appended, each
\* once and in order; the dispatches cover successive, disjoint runs of
\* those transcripts and the buffer holds the ones after the last run.
C24_NothingLostOrRepeated ==
    \A s \in Sessions :
        /\ NonSpace(Flat(DispatchedTexts(s), Len(dispatched[s]))
                    \o Flat(transcript_buffer[s], Len(transcript_buffer[s])))
              = NonSpace(Flat(processed[s], Len(processed[s])))
        /\ \A i \in 1..Len(dispatched[s]) :
              /\ dispatched[s][i].upto <= Len(processed[s])
              /\ dispatched[s][i].upto >
                    (IF i = 1 THEN 0 ELSE dispatched[s][i - 1].upto)
        /\ Len(transcript_buffer[s]) = Len(processed[s]) - LastUpto(s)

\* C24 witness: "So" and "you?" were dispatched as one question and a later
\* "So" is in the buffer
C24_Witness ==
    /\ Len(dispatched["A"]) = 1
    /\ dispatched["A"][1].text = TxtSoYou
    /\ transcript_buffer["A"] = << TxtSo >>
    /\ Len(processed["A"]) = 3

\* The number of times s is in the registry
Registered(s) ==
    Cardinality({i \in 1..Len(active_connections) : active_connections[i] = s})

\* C25: a connection is in the registry, once, exactly while its endpoint
\* has accepted it and has not ended, whichever way it ends; disconnecting
\* a connection that is not in the registry would leave the registry as it
\* is.
C25_RegistryTracksHandlers ==
    \A s \in Sessions :
        /\ Registered(s) = (IF pc[s] \in {"starting", "recv", "sending",
                                          "closing", "notifying"}
                            THEN 1 ELSE 0)
        /\ Registered(s) = 0 =>
              ManagerDisconnect(active_connections, s) = active_connections

\* C25 witness: A connected after B and ended on an error of its receive
\* loop; B is still registered and A is not
C25_Witness ==
    /\ active_connections = << "B" >>
    /\ pc["A"] = "closed"
    /\ endedBy["A"] = "json"
    /\ pc["B"] = "recv"

====
